---- MODULE Spec2Model ----
(***************************************************************************)
(* rss-action, src/index.js: the URL canonicaliser (addUTM / stripUTM),    *)
(* the managed-section codec (parseSection / renderSection /               *)
(* sanitiseTitle) and the run() pipeline that fetches feeds, deduplicates, *)
(* merges under the max_links cap, writes the file and opens a PR.         *)
(*                                                                         *)
(* Text is modelled as a sequence of tokens.  A token is a tuple of        *)
(* strings: <<"ch", c>> is a literal piece of text (one character, or one  *)
(* of the fixed pieces of the line template and the two markers, which     *)
(* the code only ever handles whole), <<"date", d>> is a ten-character     *)
(* YYYY-MM-DD date, <<"origin", o>> is the scheme-and-host head of an      *)
(* absolute URL, and <<"p", k, v, f>> is the query text "k=v", with        *)
(* f = "pct" when the value is written with escapes the URL serialiser     *)
(* would write differently (%20 for a space, where it writes +).           *)
(***************************************************************************)
EXTENDS Integers, Sequences, FiniteSets, TLC

VARIABLES
  file,            \* the output file in the working tree: [exists, content]
  maxLinksInput,   \* input max_links, as parsed by parseInt
  rssUrls,         \* the configured feed URLs (feed numbers 1..n)
  owner, repo,     \* context.repo
  pc,              \* position of run(): "idle", "fetch", "aborted"
  runs,            \* number of runs started
  replay,          \* this run's feeds return what they returned last run
  feedIdx,         \* next feed of the for-loop of run()
  fetched,         \* what each feed returned in the current (or last) run
  freshItems,      \* run(): freshItems
  freshRaw,        \* for each element of freshItems: [link, feed] as fetched
  feedErr,         \* feeds whose processing raised an error in this run
  warnings,        \* number of core.warning calls of this run
  fileAtStart,     \* the file as the run found it
  existingContent, \* run(): existingContent
  newItems,        \* run(): newItems
  allLinks,        \* run(): allLinks
  removedCount,    \* run(): removedCount
  outputs,         \* core.setOutput values: [pr_url, new_items_count]
  effects,         \* what the run did: [wrote, git, pr, failed]
  outcome,         \* how the last run ended
  prevOutcome,     \* how the run before it ended
  rawUrl,          \* canonicaliser harness: the URL given
  utmOwner, utmRepo,
  utmOut,          \* canonicaliser harness: the last result
  utmStage         \* "off", "raw", "decorated", "canonical"

vars == <<file, maxLinksInput, rssUrls, owner, repo, pc, runs, replay, feedIdx,
          fetched, freshItems, freshRaw, feedErr, warnings, fileAtStart,
          existingContent, newItems, allLinks, removedCount, outputs, effects,
          outcome, prevOutcome, rawUrl, utmOwner, utmRepo, utmOut, utmStage>>

runVars == <<file, maxLinksInput, rssUrls, owner, repo, pc, runs, replay,
             feedIdx, fetched, freshItems, freshRaw, feedErr, warnings,
             fileAtStart, existingContent, newItems, allLinks, removedCount,
             outputs, effects, outcome, prevOutcome>>

utmVars == <<rawUrl, utmOwner, utmRepo, utmOut, utmStage>>

(***************************************************************************)
(* Bounds                                                                  *)
(***************************************************************************)
MaxRuns   == 2   \* runs per behaviour
MaxFeeds  == 2   \* configured feeds
MaxCap    == 2   \* largest max_links input
MaxParams == 2   \* query parameters of a URL given to the canonicaliser

(***************************************************************************)
(* Text                                                                    *)
(***************************************************************************)
Ch(c) == <<"ch", c>>

MARKER_START == << Ch("<!-- rss-action:start -->") >>

MARKER_END == << Ch("<!-- rss-action:end -->") >>

NL == Ch("\n")

SP == Ch(" ")

IsSpace(t) == t = NL \/ t = SP

Max(a, b) == IF a >= b THEN a ELSE b

Min(a, b) == IF a <= b THEN a ELSE b

\* String.prototype.indexOf for a one-token needle, searching from position
\* `from`; 0 stands for JavaScript's -1, positions count from 1.
indexOfFrom(s, t, from) ==
  IF \E i \in from..Len(s) : s[i] = t
  THEN CHOOSE i \in from..Len(s) : s[i] = t /\ \A j \in from..(i - 1) : s[j] # t
  ELSE 0

indexOf(s, t) == indexOfFrom(s, t, 1)

\* String.prototype.slice(from) and slice(from, to), by 1-based positions
\* first..last.
slice(s, first, last) == SubSeq(s, first, last)

RECURSIVE trimEnd(_)
trimEnd(s) ==
  IF s # <<>> /\ IsSpace(s[Len(s)]) THEN trimEnd(SubSeq(s, 1, Len(s) - 1)) ELSE s

RECURSIVE trimStart(_)
trimStart(s) ==
  IF s # <<>> /\ IsSpace(s[1]) THEN trimStart(Tail(s)) ELSE s

today == "2025-06-02"

(***************************************************************************)
(* URL canonicaliser                                                       *)
(***************************************************************************)
IsParam(t) == t[1] = "p"

\* new URL(rawUrl) succeeds: the string starts with a scheme and host.
Parseable(s) == s # <<>> /\ s[1][1] = "origin"

\* The query of a URL as URLSearchParams lists it: the decoded name/value
\* pairs, in order ("&" separators and the escape form are dropped).
RECURSIVE QueryPairs(_)
QueryPairs(q) ==
  IF q = <<>> THEN <<>>
  ELSE IF IsParam(q[1]) THEN << <<q[1][2], q[1][3]>> >> \o QueryPairs(Tail(q))
  ELSE QueryPairs(Tail(q))

\* new URL(rawUrl), for a parseable string: origin, path (an empty path of a
\* special-scheme URL is "/"), query pairs, and the fragment with its "#".
ParseURL(s) ==
  LET rest == Tail(s)
      h    == indexOf(rest, Ch("#"))
      pre  == IF h = 0 THEN rest ELSE SubSeq(rest, 1, h - 1)
      hash == IF h = 0 THEN <<>> ELSE SubSeq(rest, h, Len(rest))
      q    == indexOf(pre, Ch("?"))
      path == IF q = 0 THEN pre ELSE SubSeq(pre, 1, q - 1)
      qry  == IF q = 0 THEN <<>> ELSE SubSeq(pre, q + 1, Len(pre))
  IN [origin |-> s[1],
      path   |-> IF path = <<>> THEN << Ch("/") >> ELSE path,
      params |-> QueryPairs(qry),
      hash   |-> hash]

\* application/x-www-form-urlencoded serialisation of the pairs.
RECURSIVE SerializePairs(_)
SerializePairs(ps) ==
  IF ps = <<>> THEN <<>>
  ELSE << <<"p", ps[1][1], ps[1][2], "plain">> >>
       \o (IF Len(ps) > 1 THEN << Ch("&") >> ELSE <<>>)
       \o SerializePairs(Tail(ps))

\* url.toString() after an update of searchParams: an empty list leaves no
\* "?" behind.
SerializeURL(u) ==
  << u.origin >> \o u.path
  \o (IF u.params = <<>> THEN <<>> ELSE << Ch("?") >> \o SerializePairs(u.params))
  \o u.hash

\* URLSearchParams.delete(name)
SearchParamsDelete(ps, name) == SelectSeq(ps, LAMBDA p : p[1] # name)

\* URLSearchParams.set(name, value): the first pair of that name takes the
\* value and the others are removed; without one, the pair is appended.
SearchParamsSet(ps, name, value) ==
  LET first == IF \E i \in 1..Len(ps) : ps[i][1] = name
               THEN CHOOSE i \in 1..Len(ps) :
                      ps[i][1] = name /\ \A j \in 1..(i - 1) : ps[j][1] # name
               ELSE 0
  IN IF first = 0 THEN Append(ps, <<name, value>>)
     ELSE SubSeq(ps, 1, first - 1) \o << <<name, value>> >>
          \o SearchParamsDelete(SubSeq(ps, first + 1, Len(ps)), name)

addUTM(raw, o, r) ==
  IF ~Parseable(raw) THEN raw
  ELSE LET u  == ParseURL(raw)
           p1 == SearchParamsSet(u.params, "utm_source", "github")
           p2 == SearchParamsSet(p1, "utm_medium", o)
           p3 == SearchParamsSet(p2, "utm_campaign", r)
       IN SerializeURL([u EXCEPT !.params = p3])

\* stripUTM without its third delete.
stripUTMKeepsCampaign(raw) ==
  IF ~Parseable(raw) THEN raw
  ELSE LET u  == ParseURL(raw)
           p1 == SearchParamsDelete(u.params, "utm_source")
           p2 == SearchParamsDelete(p1, "utm_medium")
       IN SerializeURL([u EXCEPT !.params = p2])

stripUTM(raw) ==
  IF ~Parseable(raw) THEN raw
  ELSE LET u  == ParseURL(raw)
           p1 == SearchParamsDelete(u.params, "utm_source")
           p2 == SearchParamsDelete(p1, "utm_medium")
           p3 == SearchParamsDelete(p2, "utm_campaign")
       IN SerializeURL([u EXCEPT !.params = p3])

(***************************************************************************)
(* Managed-section codec                                                   *)
(***************************************************************************)
LINE_OPEN == Ch("- [")     \* "- [" at the start of an entry line

TITLE_CLOSE == Ch("](")    \* "](" between the title and the URL

RPAREN == Ch(")")

DATE_SEP == Ch(" - ")

IsDate(t) == t[1] = "date"

\* One attempt of lineRe at position i (which holds "- [" at a line start),
\* with "](" taken at position j: the title is i+1..j-1 (at least one
\* character, none a line break), the URL the longest run without ")" after
\* j (at least one character, line breaks allowed) and a ")" follows it.
\* Gives the position of that ")" or 0.
UrlEnd(body, j) ==
  LET stop == indexOfFrom(body, RPAREN, j + 1)
  IN IF stop > j + 1 THEN stop ELSE 0

TitleOk(body, i, j) ==
  /\ j > i + 1
  /\ body[j] = TITLE_CLOSE
  /\ \A k \in (i + 1)..(j - 1) : body[k] # NL

\* The lazy (.+?) takes the first "](" for which the rest of the pattern
\* matches.
MatchAt(body, i) ==
  LET cands == {j \in (i + 2)..Len(body) : TitleOk(body, i, j) /\ UrlEnd(body, j) # 0}
  IN IF cands = {} THEN [ok |-> FALSE]
     ELSE LET j == CHOOSE c \in cands : \A d \in cands : c <= d
              e == UrlEnd(body, j)
              dated == /\ e + 2 <= Len(body)
                       /\ body[e + 1] = DATE_SEP
                       /\ IsDate(body[e + 2])
          IN [ok    |-> TRUE,
              link  |-> [title |-> SubSeq(body, i + 1, j - 1),
                         url   |-> SubSeq(body, j + 1, e - 1),
                         date  |-> IF dated THEN body[e + 2][2] ELSE today],
              next  |-> IF dated THEN e + 3 ELSE e + 1]

\* while ((m = lineRe.exec(sectionBody)) !== null): every match of the
\* pattern, scanning from position i; ^ (flag m) holds at the start of the
\* body and after a line break.
RECURSIVE ScanLinks(_, _)
ScanLinks(body, i) ==
  IF i > Len(body) THEN <<>>
  ELSE IF body[i] = LINE_OPEN /\ (i = 1 \/ body[i - 1] = NL)
       THEN LET m == MatchAt(body, i)
            IN IF m.ok THEN << m.link >> \o ScanLinks(body, m.next)
               ELSE ScanLinks(body, i + 1)
       ELSE ScanLinks(body, i + 1)

parseSection(content) ==
  LET si == indexOf(content, MARKER_START[1])
      ei == indexOf(content, MARKER_END[1])
  IN IF si = 0 \/ ei = 0 \/ si >= ei
     THEN LET trimmed == trimEnd(content)
          IN [before |-> IF trimmed # <<>> THEN trimmed \o <<NL, NL>> ELSE <<>>,
              after  |-> <<NL>>,
              links  |-> <<>>]
     ELSE [before |-> slice(content, 1, si - 1),
           after  |-> slice(content, ei + 1, Len(content)),
           links  |-> ScanLinks(slice(content, si + 1, ei - 1), 1)]

renderLine(l) ==
  <<LINE_OPEN>> \o l.title \o <<TITLE_CLOSE>> \o l.url
  \o <<RPAREN, DATE_SEP, <<"date", l.date>> >>

\* lines.join('\n')
RECURSIVE joinLines(_)
joinLines(links) ==
  IF links = <<>> THEN <<>>
  ELSE renderLine(links[1])
       \o (IF Len(links) > 1 THEN <<NL>> ELSE <<>>)
       \o joinLines(Tail(links))

renderSection(links) ==
  LET body == IF Len(links) > 0 THEN <<NL>> \o joinLines(links) \o <<NL>> ELSE <<NL>>
  IN MARKER_START \o body \o MARKER_END

\* .replace(/\s+/g, ' '): every run of white space becomes one space.
RECURSIVE collapseSpace(_)
collapseSpace(s) ==
  IF s = <<>> THEN <<>>
  ELSE IF IsSpace(s[1])
       THEN <<SP>> \o collapseSpace(trimStart(s))
       ELSE <<s[1]>> \o collapseSpace(Tail(s))

\* An absent or empty title is <<>>.
sanitiseTitle(raw) ==
  LET t0 == IF raw = <<>> THEN << Ch("Untitled") >> ELSE raw
      t1 == SelectSeq(t0, LAMBDA t : t # Ch("[") /\ t # Ch("]"))
      t2 == collapseSpace(t1)
  IN trimEnd(trimStart(t2))

(***************************************************************************)
(* The feeds: what parser.parseURL can return                              *)
(***************************************************************************)
ORIGIN == <<"origin", "https://x.com">>

UrlA == << ORIGIN, Ch("/a") >>

UrlAUtm ==
  << ORIGIN, Ch("/a"), Ch("?"), <<"p", "utm_source", "github", "plain">>, Ch("&"),
     <<"p", "utm_medium", "o", "plain">>, Ch("&"),
     <<"p", "utm_campaign", "r", "plain">> >>

UrlAOtherUtm ==
  << ORIGIN, Ch("/a"), Ch("?"), <<"p", "utm_source", "rss", "plain">> >>

UrlB == << ORIGIN, Ch("/b"), Ch("?"), <<"p", "q", "c d", "pct">> >>

UrlBPlain == << ORIGIN, Ch("/b"), Ch("?"), <<"p", "q", "c d", "plain">> >>

UrlParen == << ORIGIN, Ch("/wiki/Foo_"), Ch("("), Ch("bar"), RPAREN >>

UrlE == << ORIGIN, Ch("/e") >>

UrlG == << ORIGIN, Ch("/g") >>

UrlRel == << Ch("/relative") >>

UrlZ == << ORIGIN, Ch("/z") >>

\* new Date(pubDate).toISOString().slice(0, 10); "throws" is the RangeError
\* of toISOString on an invalid date.
isoDate(pubDate) ==
  CASE pubDate = "Sun, 01 Jun 2025 10:00:00 GMT" -> "2025-06-01"
    [] pubDate = "Sat, 31 May 2025 23:30:00 -0100" -> "2025-06-01"
    [] OTHER -> "throws"

\* A feed item: an absent (or empty) title, link or guid is <<>>, an absent
\* pubDate is "".
Item(t, l, g, d) == [title |-> t, link |-> l, guid |-> g, pubDate |-> d]

ItemA == Item(<<Ch("a")>>, UrlA, <<>>, "Sun, 01 Jun 2025 10:00:00 GMT")

ItemB == Item(<<Ch("b")>>, UrlB, <<>>, "")

ItemC ==
  Item(<<Ch("["), Ch("x"), Ch("]"), SP, NL, Ch("y"), SP>>, UrlAOtherUtm, <<>>,
       "Sat, 31 May 2025 23:30:00 -0100")

ItemBadDate == Item(<<Ch("f")>>, UrlZ, <<>>, "not a date")

ItemParen == Item(<<Ch("c"), RPAREN>>, UrlParen, <<>>, "Sun, 01 Jun 2025 10:00:00 GMT")

ItemNoTitle == Item(<<Ch("["), Ch("]")>>, UrlE, <<>>, "")

ItemUntitled == Item(<<>>, <<>>, UrlG, "")

ItemNoLink == Item(<<Ch("n")>>, <<>>, <<>>, "")

ItemRel == Item(<<Ch("r")>>, UrlRel, <<>>, "")

PerFeedLimit == 20

ItemLate == Item(<<Ch("z")>>, UrlZ, <<>>, "")

\* A feed of PerFeedLimit + 1 items: items without link or guid, two items
\* with distinct links as the last two within the limit, and one beyond it.
LongFeed ==
  [k \in 1..(PerFeedLimit - 2) |-> ItemNoLink] \o <<ItemA, ItemUntitled, ItemLate>>

\* A feed with a duplicate of ItemA under other UTM values and a title to
\* sanitise, links with an escaped query, with parentheses and without
\* scheme, a title of brackets only, and last an item whose date is invalid.
MixedFeed == <<ItemC, ItemB, ItemParen, ItemNoTitle, ItemRel, ItemBadDate>>

\* What one feed gives in one run, by name: parseURL throws ("error") or
\* returns a feed with these items.
FeedResults == {"error", "long", "mixed"}

feedOk(res) == res # "error"

feedItems(res) ==
  CASE res = "long"  -> LongFeed
    [] res = "mixed" -> MixedFeed
    [] OTHER         -> <<>>

\* The body of `for (const item of items)` from item i on: the entries
\* pushed, the links they came from, and whether an item raised an error
\* (which leaves the loop through the catch of the feed).
RECURSIVE ProcessItems(_, _)
ProcessItems(items, i) ==
  IF i > Len(items) THEN [pushed |-> <<>>, links |-> <<>>, threw |-> FALSE]
  ELSE LET item == items[i]
           link == IF item.link # <<>> THEN item.link ELSE item.guid
       IN IF link = <<>> THEN ProcessItems(items, i + 1)
          ELSE IF item.pubDate # "" /\ isoDate(item.pubDate) = "throws"
               THEN [pushed |-> <<>>, links |-> <<>>, threw |-> TRUE]
               ELSE LET rest == ProcessItems(items, i + 1)
                        e == [title |-> sanitiseTitle(item.title),
                              url   |-> link,
                              date  |-> IF item.pubDate # ""
                                        THEN isoDate(item.pubDate) ELSE today]
                    IN [pushed |-> <<e>> \o rest.pushed,
                        links  |-> <<link>> \o rest.links,
                        threw  |-> rest.threw]

\* One iteration of `for (const feedUrl of rssUrls)`.
ProcessFeed(res) ==
  IF ~feedOk(res) THEN [pushed |-> <<>>, links |-> <<>>, threw |-> TRUE]
  ELSE LET items == feedItems(res)
       IN ProcessItems(SubSeq(items, 1, Min(PerFeedLimit, Len(items))), 1)

(***************************************************************************)
(* run(): dedup and merge                                                  *)
(***************************************************************************)
maxLinksOf(input) == Max(1, input)

decorate(items, o, r) ==
  [k \in 1..Len(items) |-> [items[k] EXCEPT !.url = addUTM(items[k].url, o, r)]]

\* The set of the existing URLs as written, not canonicalised.
existingRawUrlsOf(existingLinks) ==
  {existingLinks[k].url : k \in 1..Len(existingLinks)}

existingBaseUrlsOf(existingLinks) ==
  {stripUTM(existingLinks[k].url) : k \in 1..Len(existingLinks)}

\* The filter looking up the decorated URL instead of its canonical form.
dedupDecorated(fresh, existingLinks) ==
  SelectSeq(fresh, LAMBDA item : item.url \notin existingBaseUrlsOf(existingLinks))

dedup(fresh, existingLinks) ==
  LET existingBaseUrls == existingBaseUrlsOf(existingLinks)
  IN SelectSeq(fresh, LAMBDA item : stripUTM(item.url) \notin existingBaseUrls)

\* The merge with slice(0, maxLinks + 1).
mergeOffByOne(new, existingLinks, maxLinks) ==
  LET all == new \o existingLinks
  IN IF Len(all) > maxLinks
     THEN [allLinks |-> SubSeq(all, 1, Min(Len(all), maxLinks + 1)),
           removedCount |-> Len(all) - maxLinks]
     ELSE [allLinks |-> all, removedCount |-> 0]

\* The merge with the new items appended after the existing ones.
mergeAppends(new, existingLinks, maxLinks) ==
  LET all == existingLinks \o new
  IN IF Len(all) > maxLinks
     THEN [allLinks |-> SubSeq(all, 1, maxLinks), removedCount |-> Len(all) - maxLinks]
     ELSE [allLinks |-> all, removedCount |-> 0]

merge(new, existingLinks, maxLinks) ==
  LET all == new \o existingLinks
  IN IF Len(all) > maxLinks
     THEN [allLinks |-> SubSeq(all, 1, maxLinks), removedCount |-> Len(all) - maxLinks]
     ELSE [allLinks |-> all, removedCount |-> 0]

SeedContent ==
  << Ch("# RSS Links"), NL, NL >> \o MARKER_START \o <<NL>> \o MARKER_END \o <<NL>>

contentOf(f) == IF f.exists THEN f.content ELSE SeedContent

PrUrl == "https://github.com/o/r/pull/1"

(***************************************************************************)
(* State                                                                   *)
(***************************************************************************)
EntryA == [title |-> <<Ch("a")>>, url |-> UrlAUtm, date |-> "2025-05-28"]

Header == << Ch("# My Reading List"), NL, NL >>

Footer == << NL, NL, Ch("Footer"), NL >>

\* A document with a managed section of two entries, the second without date.
DocMarked ==
  Header \o MARKER_START \o <<NL>> \o renderLine(EntryA) \o <<NL>>
  \o <<LINE_OPEN, Ch("b"), TITLE_CLOSE>> \o UrlBPlain \o <<RPAREN, NL>>
  \o MARKER_END \o Footer

\* A document without markers.
DocPlain == << Ch("# Notes"), NL, SP, NL >>

\* A document that quotes the end marker before its managed section.
DocEndFirst ==
  << Ch("Close the list with") >> \o MARKER_END \o <<NL>>
  \o MARKER_START \o <<NL>> \o renderLine(EntryA) \o <<NL>> \o MARKER_END \o Footer

InitialFiles ==
  { [exists |-> FALSE, content |-> <<>>],
    [exists |-> TRUE,  content |-> DocMarked],
    [exists |-> TRUE,  content |-> DocPlain],
    [exists |-> TRUE,  content |-> DocEndFirst] }

NoOutputs == [pr_url |-> "unset", new_items_count |-> "unset"]

NoEffects == [wrote |-> FALSE, git |-> FALSE, pr |-> FALSE, failed |-> FALSE]

UtmOff ==
  /\ rawUrl = <<>>
  /\ utmOwner = "o"
  /\ utmRepo = "r"
  /\ utmOut = <<>>
  /\ utmStage = "off"

RunIdle ==
  /\ pc = "idle"
  /\ runs = 0
  /\ replay = FALSE
  /\ feedIdx = 1
  /\ fetched = <<>>
  /\ freshItems = <<>>
  /\ freshRaw = <<>>
  /\ feedErr = {}
  /\ warnings = 0
  /\ existingContent = <<>>
  /\ newItems = <<>>
  /\ allLinks = <<>>
  /\ removedCount = 0
  /\ outputs = NoOutputs
  /\ effects = NoEffects
  /\ outcome = "none"
  /\ prevOutcome = "none"

Init ==
  /\ file \in InitialFiles
  /\ fileAtStart = file
  /\ maxLinksInput \in 0..MaxCap
  /\ rssUrls \in {[k \in 1..n |-> k] : n \in 0..MaxFeeds}
  /\ owner = "o"
  /\ repo = "r"
  /\ RunIdle
  /\ UtmOff

(***************************************************************************)
(* run()                                                                   *)
(***************************************************************************)
\* Lines 121-136 with no feed URL left after the split: setFailed.
RunNoUrls ==
  /\ pc = "idle"
  /\ runs < MaxRuns
  /\ Len(rssUrls) = 0
  /\ runs' = runs + 1
  /\ prevOutcome' = outcome
  /\ outcome' = "config_error"
  /\ effects' = [NoEffects EXCEPT !.failed = TRUE]
  /\ outputs' = NoOutputs
  /\ fileAtStart' = file
  /\ UNCHANGED <<file, maxLinksInput, rssUrls, owner, repo, pc, replay, feedIdx,
                 fetched, freshItems, freshRaw, feedErr, warnings,
                 existingContent, newItems, allLinks, removedCount>>
  /\ UNCHANGED utmVars

\* Lines 121-146: inputs read, the feed loop about to start.  A run may be
\* one in which every feed returns what it returned in the run before.
StartRun ==
  /\ pc = "idle"
  /\ runs < MaxRuns
  /\ Len(rssUrls) > 0
  /\ \E rp \in BOOLEAN :
       /\ rp => runs > 0
       /\ replay' = rp
       /\ fetched' = IF rp THEN fetched ELSE <<>>
  /\ pc' = "fetch"
  /\ runs' = runs + 1
  /\ feedIdx' = 1
  /\ freshItems' = <<>>
  /\ freshRaw' = <<>>
  /\ feedErr' = {}
  /\ warnings' = 0
  /\ fileAtStart' = file
  /\ existingContent' = <<>>
  /\ newItems' = <<>>
  /\ allLinks' = <<>>
  /\ removedCount' = 0
  /\ outputs' = NoOutputs
  /\ effects' = NoEffects
  /\ prevOutcome' = outcome
  /\ outcome' = "running"
  /\ UNCHANGED <<file, maxLinksInput, rssUrls, owner, repo>>
  /\ UNCHANGED utmVars

\* Lines 148-171, one feed.
FetchFeed ==
  /\ pc = "fetch"
  /\ feedIdx <= Len(rssUrls)
  /\ \E res \in (IF replay THEN {fetched[feedIdx]} ELSE FeedResults) :
       LET r == ProcessFeed(res)
       IN /\ freshItems' = freshItems \o r.pushed
          /\ freshRaw' = freshRaw
               \o [k \in 1..Len(r.links) |-> [link |-> r.links[k], feed |-> feedIdx]]
          /\ feedErr' = IF r.threw THEN feedErr \cup {feedIdx} ELSE feedErr
          /\ warnings' = IF r.threw THEN warnings + 1 ELSE warnings
          /\ fetched' = IF replay THEN fetched ELSE Append(fetched, res)
  /\ feedIdx' = feedIdx + 1
  /\ UNCHANGED <<file, maxLinksInput, rssUrls, owner, repo, pc, runs, replay,
                 fileAtStart, existingContent, newItems, allLinks, removedCount,
                 outputs, effects, outcome, prevOutcome>>
  /\ UNCHANGED utmVars

LoopDone == pc = "fetch" /\ feedIdx > Len(rssUrls)

\* Lines 173-178.
ExitNoItems ==
  /\ LoopDone
  /\ freshItems = <<>>
  /\ outputs' = [pr_url |-> "", new_items_count |-> "0"]
  /\ outcome' = "no_items"
  /\ pc' = "idle"
  /\ UNCHANGED <<file, maxLinksInput, rssUrls, owner, repo, runs, replay, feedIdx,
                 fetched, freshItems, freshRaw, feedErr, warnings, fileAtStart,
                 existingContent, newItems, allLinks, removedCount, effects,
                 prevOutcome>>
  /\ UNCHANGED utmVars

\* Lines 180-203: decorate, read the file, parse it, deduplicate.
Decorated == decorate(freshItems, owner, repo)

ExistingLinks == parseSection(contentOf(file)).links

NewItems == dedup(Decorated, ExistingLinks)

\* Lines 205-210.
ExitNoNew ==
  /\ LoopDone
  /\ freshItems # <<>>
  /\ NewItems = <<>>
  /\ freshItems' = Decorated
  /\ existingContent' = contentOf(file)
  /\ newItems' = <<>>
  /\ outputs' = [pr_url |-> "", new_items_count |-> "0"]
  /\ outcome' = "no_new"
  /\ pc' = "idle"
  /\ UNCHANGED <<file, maxLinksInput, rssUrls, owner, repo, runs, replay, feedIdx,
                 fetched, freshRaw, feedErr, warnings, fileAtStart, allLinks,
                 removedCount, effects, prevOutcome>>
  /\ UNCHANGED utmVars

\* Lines 212-229: merge, cap, write the file; `vcsOk` tells whether the git
\* commands and the pull-request call that follow succeed.
WriteFile(vcsOk) ==
  LET parsed == parseSection(contentOf(file))
      fresh  == Decorated
      new    == dedup(fresh, parsed.links)
      m      == merge(new, parsed.links, maxLinksOf(maxLinksInput))
  IN /\ new # <<>>
     /\ freshItems' = fresh
     /\ existingContent' = contentOf(file)
     /\ newItems' = new
     /\ allLinks' = m.allLinks
     /\ removedCount' = m.removedCount
     /\ file' = [exists |-> TRUE,
                 content |-> parsed.before \o renderSection(m.allLinks) \o parsed.after]
     /\ outputs' = IF vcsOk
                   THEN [pr_url |-> PrUrl, new_items_count |-> ToString(Len(new))]
                   ELSE NoOutputs

\* Lines 212-282: the file is written, the branch pushed, the PR opened.
WriteAndOpenPR ==
  /\ LoopDone
  /\ freshItems # <<>>
  /\ WriteFile(TRUE)
  /\ effects' = [wrote |-> TRUE, git |-> TRUE, pr |-> TRUE, failed |-> FALSE]
  /\ outcome' = "pr"
  /\ pc' = "idle"
  /\ UNCHANGED <<maxLinksInput, rssUrls, owner, repo, runs, replay, feedIdx,
                 fetched, freshRaw, feedErr, warnings, fileAtStart, prevOutcome>>
  /\ UNCHANGED utmVars

\* Lines 212-247 and 284: the file is written, then a git command or the
\* pull-request call throws; run().catch sets the run failed.  Nothing of
\* that working tree reaches the base branch, so no run follows in it.
WriteThenFail ==
  /\ LoopDone
  /\ freshItems # <<>>
  /\ WriteFile(FALSE)
  /\ effects' = [wrote |-> TRUE, git |-> TRUE, pr |-> FALSE, failed |-> TRUE]
  /\ outcome' = "vcs_failed"
  /\ pc' = "aborted"
  /\ UNCHANGED <<maxLinksInput, rssUrls, owner, repo, runs, replay, feedIdx,
                 fetched, freshRaw, feedErr, warnings, fileAtStart, prevOutcome>>
  /\ UNCHANGED utmVars

Next ==
  \/ RunNoUrls
  \/ StartRun
  \/ FetchFeed
  \/ ExitNoItems
  \/ ExitNoNew
  \/ WriteAndOpenPR
  \/ WriteThenFail

Spec == Init /\ [][Next]_vars

(***************************************************************************)
(* The canonicaliser on its own: addUTM, then stripUTM, of any URL         *)
(***************************************************************************)
ParamTokens ==
  { <<"p", "q", "c d", "pct">>, <<"p", "id", "1", "plain">>,
    <<"p", "utm_source", "rss", "plain">>, <<"p", "utm_medium", "o", "plain">>,
    <<"p", "utm_campaign", "spring sale", "pct">> }

RECURSIVE joinAmp(_)
joinAmp(ps) ==
  IF ps = <<>> THEN <<>>
  ELSE <<ps[1]>> \o (IF Len(ps) > 1 THEN << Ch("&") >> ELSE <<>>) \o joinAmp(Tail(ps))

UrlQueries ==
  {<<>>} \cup { << Ch("?") >> \o joinAmp(ps) :
                  ps \in UNION {[1..n -> ParamTokens] : n \in 0..MaxParams} }

UrlUniverse ==
  { head \o path \o qry \o hash :
      head \in {<<ORIGIN>>, <<>>},
      path \in {<<>>, <<Ch("/a")>>, <<Ch("/wiki/Foo_"), Ch("("), Ch("bar"), RPAREN>>},
      qry  \in UrlQueries,
      hash \in {<<>>, <<Ch("#"), Ch("top")>>} }

InitUTM ==
  /\ file = [exists |-> FALSE, content |-> <<>>]
  /\ fileAtStart = file
  /\ maxLinksInput = 1
  /\ rssUrls = <<>>
  /\ owner = "o"
  /\ repo = "r"
  /\ RunIdle
  /\ rawUrl \in UrlUniverse
  /\ utmOwner \in {"o", "github"}
  /\ utmRepo \in {"r"}
  /\ utmOut = rawUrl
  /\ utmStage = "raw"

Decorate ==
  /\ utmStage = "raw"
  /\ utmOut' = addUTM(rawUrl, utmOwner, utmRepo)
  /\ utmStage' = "decorated"
  /\ UNCHANGED <<rawUrl, utmOwner, utmRepo>>
  /\ UNCHANGED runVars

Canonicalize ==
  /\ utmStage = "decorated"
  /\ utmOut' = stripUTM(utmOut)
  /\ utmStage' = "canonical"
  /\ UNCHANGED <<rawUrl, utmOwner, utmRepo>>
  /\ UNCHANGED runVars

NextUTM == Decorate \/ Canonicalize

SpecUTM == InitUTM /\ [][NextUTM]_vars

(***************************************************************************)
(* Properties                                                              *)
(***************************************************************************)
\* The cap a max_links input stands for.
CapOf(input) == IF input < 1 THEN 1 ELSE input

Finished ==
  pc \in {"idle", "aborted"} /\ outcome \in {"no_items", "no_new", "pr", "vcs_failed"}

Wrote == Finished /\ effects.wrote

\* The entries the run found in the file.
ExistingAtStart == parseSection(contentOf(fileAtStart)).links

CanonSet(links) == {stripUTM(links[k].url) : k \in 1..Len(links)}

CountCanon(links, c) == Cardinality({k \in 1..Len(links) : stripUTM(links[k].url) = c})

\* C1: every run that writes the file leaves a managed section of at most
\* cap entries (cap is max_links, raised to 1 when below 1): the list the run
\* rendered, and the list read back from the file it wrote, are no longer
\* than cap, whatever was fetched and whatever the file held before.
C1_CapHolds ==
  Wrote =>
    /\ Len(allLinks) <= CapOf(maxLinksInput)
    /\ Len(parseSection(file.content).links) <= CapOf(maxLinksInput)

\* C1 witness: a run with max_links below 1 found more entries than the cap,
\* added new ones, trimmed and wrote.
C1_Witness ==
  /\ Wrote
  /\ maxLinksInput < 1
  /\ Len(ExistingAtStart) > CapOf(maxLinksInput)
  /\ Len(newItems) > CapOf(maxLinksInput)
  /\ removedCount > 0

\* C2: a fetched item whose canonical URL equals the canonical URL of an
\* entry parsed from the file at the start of the run is not in newItems and
\* is not added to the file: the written list holds no more entries of that
\* canonical URL than the file held.
C2_NoDuplicateAdded ==
  (Finished /\ outcome # "no_items") =>
    LET existing == ExistingAtStart
        tracked  == CanonSet(existing)
        added    == CanonSet(newItems)
    IN \A k \in 1..Len(freshRaw) :
         LET c == stripUTM(freshRaw[k].link)
         IN c \in tracked =>
              /\ \A j \in 1..Len(newItems) : newItems[j].url # freshItems[k].url
              /\ c \notin added
              /\ effects.wrote => CountCanon(allLinks, c) <= CountCanon(existing, c)

\* C2 witness: the file held an entry carrying the three UTM parameters, a
\* feed returned the same URL without any, and the run still had other new
\* items to write.
C2_Witness ==
  /\ Wrote
  /\ \E k \in 1..Len(freshRaw) : freshRaw[k].link = UrlA
  /\ \E j \in 1..Len(ExistingAtStart) : ExistingAtStart[j].url = UrlAUtm

\* The managed section as the specification delimits it: the first start
\* marker and the first end marker after it.
FirstStart(content) == indexOf(content, MARKER_START[1])

FirstEndAfter(content) ==
  IF FirstStart(content) = 0 THEN 0
  ELSE indexOfFrom(content, MARKER_END[1], FirstStart(content) + 1)

\* C3: for a document in which a start marker is followed later by an end
\* marker, the document a run writes is the text before the first start
\* marker, the rendered section, and the text after the first end marker
\* that follows that start marker.
C3_OutsideUntouched ==
  (Wrote /\ FirstEndAfter(existingContent) # 0) =>
    file.content =
      slice(existingContent, 1, FirstStart(existingContent) - 1)
      \o renderSection(allLinks)
      \o slice(existingContent, FirstEndAfter(existingContent) + 1, Len(existingContent))

\* C4: a run that fetches no items, or only items that duplicate existing
\* entries, ends successfully without write, git or pull request, with
\* pr_url "" and new_items_count "0", and leaves the file as it was.
C4_NoOpRun ==
  (/\ Finished
   /\ LET tracked == CanonSet(ExistingAtStart)
      IN \A k \in 1..Len(freshRaw) : stripUTM(freshRaw[k].link) \in tracked) =>
    /\ effects = NoEffects
    /\ outputs = [pr_url |-> "", new_items_count |-> "0"]
    /\ file = fileAtStart

\* C4 witness: a run whose feeds returned items, every one of them already
\* in the file.
C4_Witness ==
  /\ Finished
  /\ freshRaw # <<>>
  /\ LET tracked == CanonSet(ExistingAtStart)
     IN \A k \in 1..Len(freshRaw) : stripUTM(freshRaw[k].link) \in tracked

\* C5: the merge result is the first min(cap, n) elements of newItems
\* followed by the existing entries (n the length of that concatenation),
\* evictedCount is max(0, n - cap), the entries dropped are the last
\* evictedCount of the concatenation, and the count reported is the length
\* of newItems.
C5_MergeResult ==
  Wrote =>
    LET all == newItems \o ExistingAtStart
        n   == Len(all)
        cap == CapOf(maxLinksInput)
    IN /\ newItems # <<>>
       /\ allLinks = SubSeq(all, 1, Min(cap, n))
       /\ removedCount = Max(0, n - cap)
       /\ allLinks \o SubSeq(all, n - removedCount + 1, n) = all
       /\ outcome = "pr" => outputs.new_items_count = ToString(Len(newItems))

\* C5 witness: a merge that keeps every new item and one existing entry and
\* drops the oldest existing entry.
C5_Witness ==
  /\ Wrote
  /\ removedCount = 1
  /\ Len(newItems) = 1
  /\ Len(ExistingAtStart) = 2
  /\ allLinks = newItems \o <<ExistingAtStart[1]>>

NonUtm(ps) ==
  SelectSeq(ps, LAMBDA p : p[1] \notin {"utm_source", "utm_medium", "utm_campaign"})

\* C6: stripUTM(addUTM(u, o, r)) = stripUTM(u), and for a valid absolute u
\* addUTM leaves the origin, path, fragment and every query parameter other
\* than the three reserved ones as they were, and sets the three.
C6_DecorateReversible ==
  /\ utmStage = "canonical" => utmOut = stripUTM(rawUrl)
  /\ (utmStage = "decorated" /\ Parseable(rawUrl)) =>
       LET a == ParseURL(rawUrl)
           b == ParseURL(utmOut)
       IN /\ Parseable(utmOut)
          /\ b.origin = a.origin
          /\ b.path = a.path
          /\ b.hash = a.hash
          /\ NonUtm(b.params) = NonUtm(a.params)
          /\ \A i \in 1..Len(b.params) :
               /\ b.params[i][1] = "utm_source" => b.params[i][2] = "github"
               /\ b.params[i][1] = "utm_medium" => b.params[i][2] = utmOwner
               /\ b.params[i][1] = "utm_campaign" => b.params[i][2] = utmRepo
          /\ \A key \in {"utm_source", "utm_medium", "utm_campaign"} :
               Cardinality({i \in 1..Len(b.params) : b.params[i][1] = key}) = 1

\* C6 witness: a valid URL with a pre-existing utm_campaign of another value
\* and another query parameter has been decorated and canonicalised.
C6_Witness ==
  /\ utmStage = "canonical"
  /\ Parseable(rawUrl)
  /\ \E i \in 1..Len(ParseURL(rawUrl).params) :
       /\ ParseURL(rawUrl).params[i][1] = "utm_campaign"
       /\ ParseURL(rawUrl).params[i][2] # utmRepo
  /\ NonUtm(ParseURL(rawUrl).params) # <<>>

WellFormed(links) ==
  \A k \in 1..Len(links) :
    \A i \in 1..Len(links[k].title) :
      links[k].title[i] \notin {Ch("["), Ch("]"), LINE_OPEN, TITLE_CLOSE}

\* C7: parseSection of a document holding renderSection(entries) returns the
\* entries, for every list of well-formed entries the pipeline writes.
C7_RoundTrip ==
  (Wrote /\ WellFormed(allLinks)) =>
    parseSection(renderSection(allLinks)).links = allLinks

\* C8: none of the items of a feed whose processing raised an error is in
\* freshItems, and every item of the other feeds is.
C8_FailedFeedSkipped ==
  (pc = "fetch" \/ Finished) =>
    /\ \A k \in 1..Len(freshRaw) : freshRaw[k].feed \notin feedErr
    /\ \A f \in (1..(feedIdx - 1)) \ feedErr :
         Cardinality({k \in 1..Len(freshRaw) : freshRaw[k].feed = f})
           = Len(ProcessFeed(fetched[f]).links)

\* C9: new_items_count of a run that opens a pull request is the number of
\* entries of the written section that were not in the section before.
C9_CountIsAdded ==
  (pc = "idle" /\ outcome = "pr") =>
    LET tracked == CanonSet(ExistingAtStart)
    IN outputs.new_items_count =
         ToString(Cardinality({k \in 1..Len(allLinks) :
                                 stripUTM(allLinks[k].url) \notin tracked}))

\* C10: after a run that wrote the file, a run with the same configuration
\* whose feeds return the same items writes nothing and opens no pull
\* request.
C10_FixedPoint ==
  (Finished /\ replay /\ prevOutcome = "pr") =>
    /\ ~effects.wrote
    /\ ~effects.pr
    /\ outcome = "no_new"

====
